---- MODULE Spec2Model ----
(***************************************************************************)
(* A model of the azureml-workshop-2020 notebooks.                         *)
(*                                                                         *)
(*  - ScoreSpec: the scoring script score.py that the enterprise-readiness *)
(*    notebook writes with %%writefile (init / run).                       *)
(*  - Spec: the cell-by-cell execution of the enterprise-readiness         *)
(*    notebook against the cloud control plane (virtual network, compute   *)
(*    targets, training run, web service, token, scoring request).         *)
(*  - ExplainSpec: the cell-by-cell execution of the model explanation     *)
(*    notebook (load the attrition table, drop columns, split, collect the *)
(*    categorical and numerical columns, build the pipeline, train,        *)
(*    explain).                                                            *)
(*                                                                         *)
(* Python values are tagged records ("int", "str", "list", "dict",         *)
(* "ndarray"); JSON documents are tagged trees ("number", "string",        *)
(* "array", "object").  The field that carries the payload has a different *)
(* name for every tag, so that values of different kinds are never         *)
(* compared field by field.                                                *)
(***************************************************************************)
EXTENDS Integers, Sequences, FiniteSets, TLC

VARIABLES
    model,        \* score.py: the global `model`; 0 = name not defined, k = the object the k-th init loaded
    svc_out,      \* score.py: the last call of run: its input, what predict did, what run did
    pc,           \* notebook: the cell (or the blocking call inside a cell) that executes next
    raised,       \* notebook: the cell whose exception stopped the execution, or "none"
    runs,         \* notebook: top-to-bottom executions started so far
    vnet,         \* cloud: the virtual network AMLVNetDemo exists
    targets,      \* cloud: the compute targets of the workspace, by name
    service,      \* cloud: the web service aks-attrition-svc
    tokens,       \* cloud: the tokens the web service has issued
    cpu_cluster,  \* notebook variable
    aks_target,   \* notebook variable
    aks_service,  \* notebook variable
    access_token, \* notebook variable
    train_run,    \* notebook variable `run`: the submitted training run
    lookup,       \* per cluster cell: what the lookup by name did in this execution
    creates,      \* per cluster cell: calls of ComputeTarget.create in this execution
    sent,         \* the scoring requests sent in this execution
    log,          \* the steps performed in this execution, in order
    dataset,      \* workspace: the registered dataset IBM-Employee-Attrition, as a table
    xpc,          \* explanation notebook: the cell that executes next
    xraised,      \* explanation notebook: the cell whose exception stopped the execution, or "none"
    attritionData,     \* explanation notebook variable
    target,            \* explanation notebook variable
    attritionXData,    \* explanation notebook variable
    x_train,           \* explanation notebook variable
    x_test,            \* explanation notebook variable
    y_train,           \* explanation notebook variable
    y_test,            \* explanation notebook variable
    categorical,       \* explanation notebook variable
    numerical,         \* explanation notebook variable
    transformations,   \* explanation notebook variable
    fitted,            \* explanation notebook: clf.fit has returned
    explain_run,       \* explanation notebook variable `run`: the logging run of the experiment
    local_explanation, \* explanation notebook variable
    printed            \* explanation notebook: what the last cell printed, and for which rows

\* The state of the explanation notebook.
explainvars == << dataset, xpc, xraised, attritionData, target, attritionXData,
                  x_train, x_test, y_train, y_test, categorical, numerical,
                  transformations, fitted, explain_run, local_explanation,
                  printed >>

\* ------------------------------------------------------------------------
\* Bounds of the model
\* ------------------------------------------------------------------------
MaxRows  == 2     \* rows of a table passed to run
MaxInits == 2     \* times the host calls init
MaxRuns  == 2     \* top-to-bottom executions of the notebook
MaxDataRows == 6  \* rows of the attrition dataset

\* ------------------------------------------------------------------------
\* Python values and JSON documents
\* ------------------------------------------------------------------------
PyInt(n)     == [t |-> "int", i |-> n]
PyStr(s)     == [t |-> "str", c |-> s]
PyList(l)    == [t |-> "list", l |-> l]
PyDict(d)    == [t |-> "dict", d |-> d]
PyNdarray(a) == [t |-> "ndarray", a |-> a]

JNumber(n)   == [t |-> "number", n |-> n]
JString(s)   == [t |-> "string", s |-> s]
JArray(xs)   == [t |-> "array", items |-> xs]
JObject(f)   == [t |-> "object", members |-> f]

\* numpy.ndarray.tolist(): the array's elements as a Python list of ints.
tolist(arr) == PyList([k \in 1..Len(arr.a) |-> PyInt(arr.a[k])])

\* json.dumps accepts dict, list, int and str; anything else (an ndarray, a
\* DataFrame) makes it raise TypeError.
RECURSIVE Serializable(_)
Serializable(v) ==
    CASE v.t = "int"  -> TRUE
      [] v.t = "str"  -> TRUE
      [] v.t = "list" -> \A k \in 1..Len(v.l) : Serializable(v.l[k])
      [] v.t = "dict" -> \A k \in DOMAIN v.d : Serializable(v.d[k])
      [] OTHER        -> FALSE

\* json.dumps of a serializable value: the JSON document it writes.
RECURSIVE json_dumps(_)
json_dumps(v) ==
    CASE v.t = "int"  -> JNumber(v.i)
      [] v.t = "str"  -> JString(v.c)
      [] v.t = "list" -> JArray([k \in 1..Len(v.l) |-> json_dumps(v.l[k])])
      [] v.t = "dict" -> JObject([k \in DOMAIN v.d |-> json_dumps(v.d[k])])

\* ------------------------------------------------------------------------
\* Exceptions
\* ------------------------------------------------------------------------
\* The classes `except Exception` catches (subclasses of Exception).
ExceptionClasses == {"NameError", "ValueError", "TypeError", "KeyError"}

Exc(cls, msg) == [cls |-> cls, msg |-> msg]

\* str(e): the message of the exception; the class is not part of it.
str(e) == e.msg

\* What `model.predict` raises when the global `model` was never assigned.
ModelNotDefined == Exc("NameError", "name 'model' is not defined")

\* What json.dumps raises on a value it cannot serialize.
NotSerializable == Exc("TypeError", "Object of type ndarray is not JSON serializable")

\* Failures of predict on a loaded model (the pipeline rejects the table).
PredictErrors ==
    { Exc(cls, msg) : cls \in {"ValueError", "KeyError"},
                      msg \in {"could not convert string to float", "OverTime"} }

\* ------------------------------------------------------------------------
\* Tables
\* ------------------------------------------------------------------------
\* The column names of input_sample, in the order of the literal.
Columns ==
    << "Age", "BusinessTravel", "DailyRate", "Department", "DistanceFromHome",
       "Education", "EducationField", "EnvironmentSatisfaction", "Gender",
       "HourlyRate", "JobInvolvement", "JobLevel", "JobRole", "JobSatisfaction",
       "MaritalStatus", "MonthlyIncome", "MonthlyRate", "NumCompaniesWorked",
       "OverTime", "PercentSalaryHike", "PerformanceRating",
       "RelationshipSatisfaction", "StockOptionLevel", "TotalWorkingYears",
       "TrainingTimesLastYear", "WorkLifeBalance", "YearsAtCompany",
       "YearsInCurrentRole", "YearsSinceLastPromotion", "YearsWithCurrManager" >>

\* The record of input_sample (score.py).
InputSampleRow ==
  [ Age |-> PyInt(41),
    BusinessTravel |-> PyStr("Travel_Rarely"),
    DailyRate |-> PyInt(1102),
    Department |-> PyStr("Sales"),
    DistanceFromHome |-> PyInt(1),
    Education |-> PyInt(2),
    EducationField |-> PyStr("Life Sciences"),
    EnvironmentSatisfaction |-> PyInt(2),
    Gender |-> PyStr("Female"),
    HourlyRate |-> PyInt(94),
    JobInvolvement |-> PyInt(3),
    JobLevel |-> PyInt(2),
    JobRole |-> PyStr("Sales Executive"),
    JobSatisfaction |-> PyInt(4),
    MaritalStatus |-> PyStr("Single"),
    MonthlyIncome |-> PyInt(5993),
    MonthlyRate |-> PyInt(19479),
    NumCompaniesWorked |-> PyInt(8),
    OverTime |-> PyStr("No"),
    PercentSalaryHike |-> PyInt(11),
    PerformanceRating |-> PyInt(3),
    RelationshipSatisfaction |-> PyInt(1),
    StockOptionLevel |-> PyInt(0),
    TotalWorkingYears |-> PyInt(8),
    TrainingTimesLastYear |-> PyInt(0),
    WorkLifeBalance |-> PyInt(1),
    YearsAtCompany |-> PyInt(6),
    YearsInCurrentRole |-> PyInt(4),
    YearsSinceLastPromotion |-> PyInt(0),
    YearsWithCurrManager |-> PyInt(5) ]

\* The record of the notebook's `sample` (an employee that is not an
\* attrition risk): input_sample with OverTime given as the integer 0.
SampleRow == [InputSampleRow EXCEPT !.OverTime = PyInt(0)]

\* pd.DataFrame(data=[...]): columns, a default integer index 0..n-1, rows.
DataFrame(rows) ==
    [ columns |-> Columns,
      index   |-> [k \in 1..Len(rows) |-> k - 1],
      data    |-> rows ]

\* All sequences over S of length 0..n.
SeqsUpTo(S, n) == UNION { [1..k -> S] : k \in 0..n }

\* The tables handed to run by the host.
Inputs == { DataFrame(rows) : rows \in SeqsUpTo({InputSampleRow, SampleRow}, MaxRows) }

\* ------------------------------------------------------------------------
\* score.py
\* ------------------------------------------------------------------------
\* The class labels of the attrition classifier (output_sample holds one).
Labels == {0, 1}

\* model.predict(data): with `model` undefined the name lookup raises
\* NameError; a loaded pipeline returns one label per row or raises.
PredictOutcomes(m, data) ==
    IF m = 0
    THEN { [kind |-> "raise", exc |-> ModelNotDefined] }
    ELSE { [kind |-> "ok", value |-> PyNdarray(a)] : a \in [1..Len(data.data) -> Labels] }
         \cup { [kind |-> "raise", exc |-> e] : e \in PredictErrors }

\* A faulty handler, `except ValueError`: it lets every other class through.
CatchesValueErrorOnly(e) == e.cls = "ValueError"

\* `except Exception`: the handler catches every subclass of Exception.
Catches(e) == e.cls \in ExceptionClasses

Returned(doc) == [kind |-> "return", text |-> doc]
Raised(e)     == [kind |-> "raise", exc |-> e]

\* A faulty except branch that re-raises what it caught.
ExceptBranchReraises(e) == Raised(e)

\* The except branch of run: result = str(e); return json.dumps({"error": result}).
ExceptBranch(e) ==
    IF Catches(e)
    THEN Returned(json_dumps(PyDict([k \in {"error"} |-> PyStr(str(e))])))
    ELSE Raised(e)

\* A faulty run that passes the ndarray itself to json.dumps (no tolist()).
RunBodyNoTolist(o) ==
    IF o.kind = "ok"
    THEN LET payload == PyDict([k \in {"result"} |-> o.value])
         IN  IF Serializable(payload)
             THEN Returned(json_dumps(payload))
             ELSE ExceptBranch(NotSerializable)
    ELSE ExceptBranch(o.exc)

\* A faulty run that answers a success with both keys.
RunBodyBothKeys(o) ==
    IF o.kind = "ok"
    THEN Returned(json_dumps(PyDict([k \in {"result", "error"} |->
                     IF k = "result" THEN tolist(o.value) ELSE PyStr("")])))
    ELSE ExceptBranch(o.exc)

\* The body of run(data), given what model.predict(data) did:
\*   try:    result = model.predict(data)
\*           return json.dumps({"result": result.tolist()})
\*   except Exception as e: ...
\* json.dumps is inside the try, so a TypeError it raises takes the except
\* branch too.
RunBody(o) ==
    IF o.kind = "ok"
    THEN LET payload == PyDict([k \in {"result"} |-> tolist(o.value)])
         IN  IF Serializable(payload)
             THEN Returned(json_dumps(payload))
             ELSE ExceptBranch(NotSerializable)
    ELSE ExceptBranch(o.exc)

\* The status line of the answer.  In both branches run returns a plain
\* string (never a response object carrying a status code), which the host
\* sends with status 200; only an exception leaving run makes the host
\* answer with a server error.
HttpStatus(res) == IF res.kind = "return" THEN 200 ELSE 500


\* The state of the notebook and of the cloud, which score.py never touches.
nbvars == << pc, raised, runs, vnet, targets, service, tokens, cpu_cluster,
             aks_target, aks_service, access_token, train_run, lookup,
             creates, sent, log >>

\* init(): model = joblib.load(Model.get_model_path(...)).  Either call may
\* raise, and then the global is not assigned.
init ==
    /\ model < MaxInits
    /\ \/ model' = model + 1
       \/ model' = model
    /\ UNCHANGED << svc_out, nbvars, explainvars >>

\* A faulty run whose except branch also discards the loaded model.
runClearsModelOnError ==
    /\ \E data \in Inputs :
         \E o \in PredictOutcomes(model, data) :
            /\ svc_out' = [ called  |-> TRUE,
                            data    |-> data,
                            loaded  |-> model # 0,
                            predict |-> o,
                            result  |-> RunBody(o) ]
            /\ model' = IF o.kind = "raise" THEN 0 ELSE model
    /\ UNCHANGED << nbvars, explainvars >>

\* run(data): the host calls it with a table (the input_schema decorator has
\* already turned the request's "data" into a DataFrame).
run ==
    /\ \E data \in Inputs :
         \E o \in PredictOutcomes(model, data) :
            svc_out' = [ called  |-> TRUE,
                         data    |-> data,
                         loaded  |-> model # 0,
                         predict |-> o,
                         result  |-> RunBody(o) ]
    /\ UNCHANGED << model, nbvars, explainvars >>

\* ------------------------------------------------------------------------
\* The request body: pandas.DataFrame.to_json, json.loads, json.dumps
\* ------------------------------------------------------------------------
\* The JSON scalar pandas writes for a cell.
JsonCell(v) == IF v.t = "int" THEN JNumber(v.i) ELSE JString(v.c)

ColumnSet(df) == { df.columns[k] : k \in 1..Len(df.columns) }

\* What to_json would write with orient="records", which the notebook does
\* not pass: one object per row, column -> value.
to_json_records(df) ==
    JArray([k \in 1..Len(df.data) |->
              JObject([c \in ColumnSet(df) |-> JsonCell(df.data[k][c])])])

\* pd.DataFrame.to_json(sample) with no orient: for a DataFrame the default is
\* "columns", {column -> {index label -> value}}; the index labels become the
\* keys of the inner objects, as strings.
to_json(df) ==
    JObject([c \in ColumnSet(df) |->
               JObject([key \in { ToString(df.index[k]) : k \in 1..Len(df.index) } |->
                          LET k == CHOOSE j \in 1..Len(df.index) : ToString(df.index[j]) = key
                          IN  JsonCell(df.data[k][c])])])

\* json.loads: object -> dict, array -> list, number -> int, string -> str.
RECURSIVE json_loads(_)
json_loads(j) ==
    CASE j.t = "number" -> PyInt(j.n)
      [] j.t = "string" -> PyStr(j.s)
      [] j.t = "array"  -> PyList([k \in 1..Len(j.items) |-> json_loads(j.items[k])])
      [] j.t = "object" -> PyDict([k \in DOMAIN j.members |-> json_loads(j.members[k])])

\* sample = pd.DataFrame.to_json(sample); sample = json.loads(sample);
\* sample = json.dumps({"data": sample})
RequestBody(df) == json_dumps(PyDict([k \in {"data"} |-> json_loads(to_json(df))]))

\* The table both request cells build: one row, the not-at-risk employee.
sample == DataFrame(<< SampleRow >>)

\* input_sample = pd.DataFrame(data=[{...}]): the table score.py declares as
\* the schema of `data`.
input_sample == DataFrame(<< InputSampleRow >>)

\* ------------------------------------------------------------------------
\* The HTTP headers of the raw request
\* ------------------------------------------------------------------------
\* The commented-out alternative of the cell, 'Bearer ' + key1, which the
\* notebook does not use.
HeadersWithKey(token) ==
    [ ContentType |-> "application/json", Authorization |-> "Bearer " \o "key1" ]

\* headers = {'Content-Type':'application/json', 'Authorization': 'Bearer ' + access_token}
Headers(token) ==
    [ ContentType |-> "application/json", Authorization |-> "Bearer " \o token ]

\* ------------------------------------------------------------------------
\* The cloud: compute targets, web service, tokens
\* ------------------------------------------------------------------------
TrainingCluster  == "vnetcluster"        \* cpu_cluster_name
InferenceCluster == "aksvnetcluster1"    \* aks_cluster_name
TargetNames      == {TrainingCluster, InferenceCluster}

ProvisioningStates == {"Creating", "Succeeded", "Failed"}

\* The network placement of a compute target.
Placement(rg, vn, sn) ==
    [vnet_resourcegroup_name |-> rg, vnet_name |-> vn, subnet_name |-> sn]

\* A target that was created without virtual network settings.
NoVNet == Placement("", "", "")

\* vnet_name = 'AMLVNetDemo'; subnet_name = 'default';
\* vnet_resourcegroup_name = ws.resource_group
vnet_name               == "AMLVNetDemo"
subnet_name             == "default"
vnet_resourcegroup_name == "ws.resource_group"

\* compute_config = AmlCompute.provisioning_configuration(vm_size=..., ...,
\*     vnet_resourcegroup_name=vnet_resourcegroup_name, vnet_name=vnet_name,
\*     subnet_name=subnet_name)
compute_config == Placement(vnet_resourcegroup_name, vnet_name, subnet_name)

\* config = AksCompute.provisioning_configuration(location=ws.location);
\* config.vnet_resourcegroup_name = ws.resource_group;
\* config.vnet_name = "AMLVNetDemo"; config.subnet_name = "default"
provisioning_config == Placement("ws.resource_group", "AMLVNetDemo", "default")

\* A compute target of the workspace: its provisioning state, whether SSL is
\* enabled on it, which creation it comes from (0: it was there before the
\* notebook ran; k: the k-th ComputeTarget.create of that name), and the
\* network it was created in.
Target(state, ssl, gen, net) == [state |-> state, ssl |-> ssl, gen |-> gen, net |-> net]
AbsentTarget == Target("Absent", FALSE, 0, NoVNet)

Exists(tgt) == tgt.state # "Absent"

\* What a notebook variable holds: nothing yet, or a handle on a cloud object.
Unbound == [bound |-> FALSE]
Handle(name, gen) == [bound |-> TRUE, name |-> name, gen |-> gen]

\* ComputeTarget(workspace=ws, name=...): returns a handle when the target
\* exists, raises ComputeTargetException when it does not; the call can also
\* fail on the way to the provider (authentication, connection).
LookupOutcomes(tgt) ==
    { IF Exists(tgt) THEN [kind |-> "found"]
                     ELSE [kind |-> "raise", cls |-> "ComputeTargetException"] }
    \cup { [kind |-> "raise", cls |-> "ConnectionError"] }

\* A faulty handler, a bare `except:`.
HandlerCatchesAll(cls) == TRUE

\* `except ComputeTargetException:`
HandlerCatches(cls) == cls = "ComputeTargetException"

\* A faulty cell that creates without looking at the lookup's answer.
CellPathAlwaysCreate(o) == "create"

\* The path a lookup-or-create cell takes after the lookup:
\*   try: <lookup>; print("Found existing ...")      -> reuse
\*   except ComputeTargetException: ... create ...     -> create
\*   any other exception leaves the cell               -> propagate
CellPath(o) ==
    IF o.kind = "found" THEN "reuse"
    ELSE IF HandlerCatches(o.cls) THEN "create"
    ELSE "propagate"

\* What the lookup of a cell is remembered as: whether the target existed
\* when the cell ran, and what the call did ("found", or the class raised).
NoLookup == [done |-> FALSE]
LookupRecord(tgt, o) ==
    [ done    |-> TRUE,
      existed |-> Exists(tgt),
      gen     |-> tgt.gen,
      outcome |-> IF o.kind = "found" THEN "found" ELSE o.cls ]

\* The target a provisioning configuration of the notebook asks for: neither
\* AmlCompute.provisioning_configuration(...) nor the AksCompute configuration
\* calls enable_ssl (the cell that would is commented out); the target is
\* placed in the network the configuration names.
CreatedTarget(old, cfg) == Target("Creating", FALSE, old.gen + 1, cfg)

\* The web service.
AbsentService == [state |-> "Absent", gen |-> 0]

\* aks_config = AksWebservice.deploy_configuration(tags=..., description=...,
\*                  token_auth_enabled=True, auth_enabled=False)
aks_config == [token_auth_enabled |-> TRUE, auth_enabled |-> FALSE]

\* Model.deploy(..., deployment_config=aks_config, deployment_target=aks_target):
\* the service starts deploying on the target; the deployment configuration
\* sets no SSL option, so the endpoint is HTTPS only if the cluster has SSL.
DeployedService(old, config, tgt) ==
    [ state              |-> "Transitioning",
      gen                |-> old.gen + 1,
      token_auth_enabled |-> config.token_auth_enabled,
      auth_enabled       |-> config.auth_enabled,
      target_gen         |-> tgt.gen,
      ssl                |-> tgt.ssl ]

\* aks_service.scoring_uri
scoring_uri(svc) == IF svc.ssl THEN "https" ELSE "http"

\* The token string the service issues.
TokenString(gen, n) == "token-" \o ToString(gen) \o "-" \o ToString(n)

\* ------------------------------------------------------------------------
\* The notebook, cell by cell
\* ------------------------------------------------------------------------
\* A notebook with the inference cluster cells moved before the training
\* cluster cell.
CellOrderAksFirst ==
    << "vnet", "aks_cell", "aks_wait", "cpu_cell", "submit", "deploy",
       "get_token", "post", "svc_run", "done" >>

\* The cells in the order of the notebook.  "cpu_wait" and "deploy_wait" are
\* the blocking calls inside the cells "cpu_cell" and "deploy".
CellOrder ==
    << "vnet", "cpu_cell", "aks_cell", "aks_wait", "submit", "deploy",
       "get_token", "post", "svc_run", "done" >>

After(c) == CellOrder[(CHOOSE k \in 1..(Len(CellOrder) - 1) : CellOrder[k] = c) + 1]

\* A notebook whose later cells run although an earlier cell raised.
RunningIgnoresRaise(c) == pc = c

\* The cell c runs when the cells before it have run and none has raised: an
\* exception no handler catches ends the execution of the notebook.
Running(c) == pc = c /\ raised = "none"

Step(step, by, res) == [step |-> step, by |-> by, res |-> res]

\* Section 1 (markdown): "Create a VNet with a subnet as shown in the image
\* below. Use the name AMLVNetDemo ...": done by hand in the portal.
CreateVNet ==
    /\ Running("vnet")
    /\ vnet' = TRUE
    /\ log' = Append(log, Step("vnet", "manual", "n/a"))
    /\ pc' = After("vnet")
    /\ UNCHANGED << explainvars, model, svc_out, raised, runs, targets, service, tokens,
                    cpu_cluster, aks_target, aks_service, access_token,
                    train_run, lookup, creates, sent >>

\* The training cluster cell up to and including ComputeTarget.create.
CpuClusterCell ==
    /\ Running("cpu_cell")
    /\ \E o \in LookupOutcomes(targets[TrainingCluster]) :
         /\ lookup' = [lookup EXCEPT ![TrainingCluster] =
                          LookupRecord(targets[TrainingCluster], o)]
         /\ \/ /\ CellPath(o) = "reuse"
               /\ cpu_cluster' = Handle(TrainingCluster, targets[TrainingCluster].gen)
               /\ log' = Append(log, Step("training_cluster", "sdk", "reuse"))
               /\ pc' = After("cpu_cell")
               /\ UNCHANGED << targets, creates, raised >>
            \/ /\ CellPath(o) = "create"
               /\ creates' = [creates EXCEPT ![TrainingCluster] = @ + 1]
               /\ \/ /\ targets' = [targets EXCEPT ![TrainingCluster] =
                                                     CreatedTarget(@, compute_config)]
                     /\ cpu_cluster' = Handle(TrainingCluster, targets[TrainingCluster].gen + 1)
                     /\ pc' = "cpu_wait"
                     /\ UNCHANGED << raised, log >>
                  \/ /\ raised' = "cpu_cell"
                     /\ UNCHANGED << targets, cpu_cluster, pc, log >>
            \/ /\ CellPath(o) = "propagate"
               /\ raised' = "cpu_cell"
               /\ UNCHANGED << targets, creates, cpu_cluster, pc, log >>
    /\ UNCHANGED << explainvars, model, svc_out, runs, vnet, service, tokens, aks_target,
                    aks_service, access_token, train_run, sent >>

\* cpu_cluster.wait_for_completion(show_output=True), inside the except
\* branch: blocks until provisioning ends and raises if it failed.
CpuWait ==
    /\ Running("cpu_wait")
    /\ \/ /\ targets[TrainingCluster].state = "Succeeded"
          /\ log' = Append(log, Step("training_cluster", "sdk", "create"))
          /\ pc' = After("cpu_cell")
          /\ UNCHANGED raised
       \/ /\ targets[TrainingCluster].state = "Failed"
          /\ raised' = "cpu_cell"
          /\ UNCHANGED << log, pc >>
    /\ UNCHANGED << explainvars, model, svc_out, runs, vnet, targets, service, tokens,
                    cpu_cluster, aks_target, aks_service, access_token,
                    train_run, lookup, creates, sent >>

\* The inference cluster cell: lookup, or ComputeTarget.create without waiting.
AksClusterCell ==
    /\ Running("aks_cell")
    /\ \E o \in LookupOutcomes(targets[InferenceCluster]) :
         /\ lookup' = [lookup EXCEPT ![InferenceCluster] =
                          LookupRecord(targets[InferenceCluster], o)]
         /\ \/ /\ CellPath(o) = "reuse"
               /\ aks_target' = Handle(InferenceCluster, targets[InferenceCluster].gen)
               /\ log' = Append(log, Step("inference_cluster", "sdk", "reuse"))
               /\ pc' = After("aks_cell")
               /\ UNCHANGED << targets, creates, raised >>
            \/ /\ CellPath(o) = "create"
               /\ creates' = [creates EXCEPT ![InferenceCluster] = @ + 1]
               /\ \/ /\ targets' = [targets EXCEPT ![InferenceCluster] =
                                                     CreatedTarget(@, provisioning_config)]
                     /\ aks_target' = Handle(InferenceCluster, targets[InferenceCluster].gen + 1)
                     /\ log' = Append(log, Step("inference_cluster", "sdk", "create"))
                     /\ pc' = After("aks_cell")
                     /\ UNCHANGED raised
                  \/ /\ raised' = "aks_cell"
                     /\ UNCHANGED << targets, aks_target, pc, log >>
            \/ /\ CellPath(o) = "propagate"
               /\ raised' = "aks_cell"
               /\ UNCHANGED << targets, creates, aks_target, pc, log >>
    /\ UNCHANGED << explainvars, model, svc_out, runs, vnet, service, tokens, cpu_cluster,
                    aks_service, access_token, train_run, sent >>

\* aks_target.wait_for_completion(show_output = True), a cell of its own: it
\* runs on the create path and on the reuse path.
AksWait ==
    /\ Running("aks_wait")
    /\ \/ /\ targets[InferenceCluster].state = "Succeeded"
          /\ log' = Append(log, Step("aks_wait", "sdk", "n/a"))
          /\ pc' = After("aks_wait")
          /\ UNCHANGED raised
       \/ /\ targets[InferenceCluster].state = "Failed"
          /\ raised' = "aks_wait"
          /\ UNCHANGED << log, pc >>
    /\ UNCHANGED << explainvars, model, svc_out, runs, vnet, targets, service, tokens,
                    cpu_cluster, aks_target, aks_service, access_token,
                    train_run, lookup, creates, sent >>

\* The provider finishes provisioning a target, one way or the other.
Provision ==
    /\ \E c \in TargetNames :
         /\ targets[c].state = "Creating"
         /\ \E s \in {"Succeeded", "Failed"} :
               targets' = [targets EXCEPT ![c].state = s]
    /\ UNCHANGED << explainvars, model, svc_out, pc, raised, runs, vnet, service, tokens,
                    cpu_cluster, aks_target, aks_service, access_token,
                    train_run, lookup, creates, sent, log >>

\* run = experiment.submit(estimator), with compute_target=cpu_cluster.  The
\* call returns as soon as the run is accepted; RunDetails(run).show() in the
\* next cell only displays a widget.
Submit ==
    /\ Running("submit")
    /\ log' = Append(log, Step("submit", "sdk", targets[cpu_cluster.name].state))
    /\ \/ /\ train_run' = [submitted |-> TRUE, status |-> "Starting"]
          /\ pc' = After("submit")
          /\ UNCHANGED raised
       \/ /\ raised' = "submit"
          /\ UNCHANGED << train_run, pc >>
    /\ UNCHANGED << explainvars, model, svc_out, runs, vnet, targets, service, tokens,
                    cpu_cluster, aks_target, aks_service, access_token,
                    lookup, creates, sent >>

\* The training run ends on the cluster.
TrainProgress ==
    /\ train_run.submitted
    /\ train_run.status = "Starting"
    /\ \E s \in {"Completed", "Failed"} : train_run' = [train_run EXCEPT !.status = s]
    /\ UNCHANGED << explainvars, model, svc_out, pc, raised, runs, vnet, targets, service,
                    tokens, cpu_cluster, aks_target, aks_service, access_token,
                    lookup, creates, sent, log >>

\* aks_service = Model.deploy(ws, name=aks_service_name, ..., aks_config,
\* deployment_target=aks_target): no lookup of the service name comes first;
\* the provider refuses a name that is taken, and may refuse anyway.
Deploy ==
    /\ Running("deploy")
    /\ log' = Append(log, Step("deploy", "sdk", targets[aks_target.name].state))
    /\ \/ /\ service.state = "Absent"
          /\ service' = DeployedService(service, aks_config, targets[aks_target.name])
          /\ aks_service' = Handle("aks-attrition-svc", service.gen + 1)
          /\ pc' = "deploy_wait"
          /\ UNCHANGED raised
       \/ /\ raised' = "deploy"
          /\ UNCHANGED << service, aks_service, pc >>
    /\ UNCHANGED << explainvars, model, svc_out, runs, vnet, targets, tokens, cpu_cluster,
                    aks_target, access_token, train_run, lookup, creates, sent >>

\* A faulty wait that returns without waiting for the deployment to end.
DeployWaitReturnsAtOnce ==
    /\ pc = "deploy_wait" /\ raised = "none"
    /\ log' = Append(log, [step |-> "deployed", by |-> "sdk", res |-> "n/a"])
    /\ pc' = "get_token"
    /\ UNCHANGED << explainvars, model, svc_out, raised, runs, vnet, targets, service, tokens,
                    cpu_cluster, aks_target, aks_service, access_token,
                    train_run, lookup, creates, sent >>

\* aks_service.wait_for_deployment(True): blocks until the deployment ends
\* and raises if the service did not become healthy.
DeployWait ==
    /\ Running("deploy_wait")
    /\ \/ /\ service.state = "Healthy"
          /\ log' = Append(log, Step("deployed", "sdk", "n/a"))
          /\ pc' = After("deploy")
          /\ UNCHANGED raised
       \/ /\ service.state = "Failed"
          /\ raised' = "deploy"
          /\ UNCHANGED << log, pc >>
    /\ UNCHANGED << explainvars, model, svc_out, runs, vnet, targets, service, tokens,
                    cpu_cluster, aks_target, aks_service, access_token,
                    train_run, lookup, creates, sent >>

\* The provider finishes deploying the service, one way or the other.
ServiceProgress ==
    /\ service.state = "Transitioning"
    /\ \E s \in {"Healthy", "Failed"} : service' = [service EXCEPT !.state = s]
    /\ UNCHANGED << explainvars, model, svc_out, pc, raised, runs, vnet, targets, tokens,
                    cpu_cluster, aks_target, aks_service, access_token,
                    train_run, lookup, creates, sent, log >>

\* access_token, refresh_after = aks_service.get_token(): the service issues
\* a token if token authentication is enabled on it.
GetToken ==
    /\ Running("get_token")
    /\ log' = Append(log, Step("get_token", "sdk", service.state))
    /\ \/ /\ service.gen = aks_service.gen
          /\ service.token_auth_enabled
          /\ LET tok == TokenString(service.gen, Cardinality(tokens) + 1)
             IN  /\ tokens' = tokens \cup { [token |-> tok, service_gen |-> service.gen,
                                             service_state |-> service.state] }
                 /\ access_token' = tok
          /\ pc' = After("get_token")
          /\ UNCHANGED raised
       \/ /\ raised' = "get_token"
          /\ UNCHANGED << tokens, access_token, pc >>
    /\ UNCHANGED << explainvars, model, svc_out, runs, vnet, targets, service, cpu_cluster,
                    aks_target, aks_service, train_run, lookup, creates, sent >>

\* The raw HTTP request:
\*   headers = {...}; resp = requests.post(aks_service.scoring_uri, sample, headers=headers)
Post ==
    /\ Running("post")
    /\ sent' = Append(sent, [ via         |-> "requests.post",
                              scheme      |-> scoring_uri(service),
                              service_gen |-> aks_service.gen,
                              headers     |-> Headers(access_token),
                              body        |-> RequestBody(sample) ])
    /\ log' = Append(log, Step("post", "requests", "n/a"))
    /\ \/ /\ pc' = After("post")
          /\ UNCHANGED raised
       \/ /\ raised' = "post"
          /\ UNCHANGED pc
    /\ UNCHANGED << explainvars, model, svc_out, runs, vnet, targets, service, tokens,
                    cpu_cluster, aks_target, aks_service, access_token,
                    train_run, lookup, creates >>

\* prediction = aks_service.run(sample): the SDK sends the request and
\* handles the authentication itself.
ServiceRun ==
    /\ Running("svc_run")
    /\ sent' = Append(sent, [ via         |-> "aks_service.run",
                              scheme      |-> scoring_uri(service),
                              service_gen |-> aks_service.gen,
                              body        |-> RequestBody(sample) ])
    /\ log' = Append(log, Step("svc_run", "sdk", "n/a"))
    /\ \/ /\ pc' = After("svc_run")
          /\ UNCHANGED raised
       \/ /\ raised' = "svc_run"
          /\ UNCHANGED pc
    /\ UNCHANGED << explainvars, model, svc_out, runs, vnet, targets, service, tokens,
                    cpu_cluster, aks_target, aks_service, access_token,
                    train_run, lookup, creates >>

\* The notebook is executed again from the top (kernel restarted): its
\* variables are gone, the cloud is as the last execution left it.
RunAll ==
    /\ pc = "done" \/ raised # "none"
    /\ runs < MaxRuns
    /\ runs' = runs + 1
    /\ pc' = CellOrder[1]
    /\ raised' = "none"
    /\ cpu_cluster' = Unbound
    /\ aks_target' = Unbound
    /\ aks_service' = Unbound
    /\ access_token' = ""
    /\ train_run' = [submitted |-> FALSE]
    /\ lookup' = [c \in TargetNames |-> NoLookup]
    /\ creates' = [c \in TargetNames |-> 0]
    /\ sent' = << >>
    /\ log' = << >>
    /\ UNCHANGED << explainvars, model, svc_out, vnet, targets, service, tokens >>

\* ------------------------------------------------------------------------
\* The explanation notebook: tables
\* ------------------------------------------------------------------------
\* The columns of the attrition dataset the model keeps (the label, the four
\* columns the notebook drops and four feature columns), in the order a
\* sorted pandas Index puts them.
SortedColumns ==
    << "Age", "Attrition", "BusinessTravel", "DailyRate", "EmployeeCount",
       "EmployeeNumber", "Over18", "OverTime", "StandardHours" >>

\* The column orders a registered dataset may come in: the published order,
\* another order, and two tables that lack a column the notebook names.
DatasetColumnOrders ==
    { SortedColumns,
      << "EmployeeNumber", "StandardHours", "OverTime", "Age", "EmployeeCount",
         "BusinessTravel", "Over18", "DailyRate", "Attrition" >>,
      << "Age", "Attrition", "BusinessTravel", "DailyRate", "EmployeeCount",
         "EmployeeNumber", "OverTime", "StandardHours" >>,
      << "Age", "BusinessTravel", "DailyRate", "EmployeeCount",
         "EmployeeNumber", "Over18", "OverTime", "StandardHours" >> }

\* Two employee records: one who stays (label 0) and one who leaves (label
\* 1).  EmployeeCount is 1 and StandardHours 80 for everyone; OverTime comes
\* as a number in one record and as text in the other.
EmployeeStays ==
  [ Age |-> PyInt(41), Attrition |-> PyInt(0),
    BusinessTravel |-> PyStr("Travel_Rarely"), DailyRate |-> PyInt(1102),
    EmployeeCount |-> PyInt(1), EmployeeNumber |-> PyInt(1),
    Over18 |-> PyStr("Y"), OverTime |-> PyInt(0), StandardHours |-> PyInt(80) ]

EmployeeLeaves ==
  [ Age |-> PyInt(49), Attrition |-> PyInt(1),
    BusinessTravel |-> PyStr("Travel_Frequently"), DailyRate |-> PyInt(279),
    EmployeeCount |-> PyInt(1), EmployeeNumber |-> PyInt(2),
    Over18 |-> PyStr("Y"), OverTime |-> PyStr("Yes"), StandardHours |-> PyInt(80) ]

\* A table: column labels in order, row labels in order, and the rows, each
\* a function from the column labels to values.
Table(cols, idx, rows) == [columns |-> cols, index |-> idx, data |-> rows]

EmptyTable  == Table(<< >>, << >>, << >>)
EmptySeries == [name |-> "", index |-> << >>, values |-> << >>]

SeqRange(q) == { q[k] : k \in 1..Len(q) }

\* ws.datasets['IBM-Employee-Attrition'].to_pandas_dataframe(): the columns
\* of the registered dataset, a default integer index, the records.
to_pandas_dataframe(cols, records) ==
    Table(cols,
          [k \in 1..Len(records) |-> k - 1],
          [k \in 1..Len(records) |-> [c \in SeqRange(cols) |-> records[k][c]]])

\* The datasets the workspace may hold.
Datasets ==
    { to_pandas_dataframe(cols, records) :
        cols \in DatasetColumnOrders,
        records \in SeqsUpTo({EmployeeStays, EmployeeLeaves}, MaxDataRows) \ {<< >>} }

\* df.drop(labels, axis=1) raises KeyError unless every label is a column.
CanDrop(df, labels) == SeqRange(labels) \subseteq ColumnSet(df)

\* df.drop(labels, axis=1): the table without the columns named; the other
\* columns keep their order and values, the rows their labels and order.
drop(df, labels) ==
    LET Kept(c) == c \notin SeqRange(labels)
        cols    == SelectSeq(df.columns, Kept)
    IN  Table(cols, df.index,
              [k \in 1..Len(df.data) |-> [c \in SeqRange(cols) |-> df.data[k][c]]])

\* A faulty cell that forgets the drop of Over18.
NonInformativeThree == << "EmployeeCount", "EmployeeNumber", "StandardHours" >>

\* The columns the notebook drops as uninformative, in the order of its four
\* drop statements.
NonInformative == << "EmployeeCount", "EmployeeNumber", "Over18", "StandardHours" >>

\* attritionData = attritionData.drop([l], axis=1) for each label in turn;
\* the first KeyError ends the cell, with the earlier drops already assigned.
RECURSIVE DropEach(_, _)
DropEach(df, labels) ==
    IF labels = << >> THEN [ok |-> TRUE, df |-> df]
    ELSE IF ~CanDrop(df, << Head(labels) >>) THEN [ok |-> FALSE, df |-> df]
    ELSE DropEach(drop(df, << Head(labels) >>), Tail(labels))

\* df[c]: the column as a series with the row labels of the table.
getitem(df, c) ==
    [ name   |-> c,
      index  |-> df.index,
      values |-> [k \in 1..Len(df.data) |-> df.data[k][c]] ]

\* A faulty cell that takes the whole table as the feature table.
FeaturesKeepLabel(df) == df

\* attritionXData = attritionData.drop(['Attrition'], axis=1)
Features(df) == drop(df, << "Attrition" >>)

\* The rows of a table, respectively series, at the given positions.
TakeRows(df, pos) ==
    Table(df.columns,
          [k \in 1..Len(pos) |-> df.index[pos[k]]],
          [k \in 1..Len(pos) |-> df.data[pos[k]]])

TakeValues(sr, pos) ==
    [ name   |-> sr.name,
      index  |-> [k \in 1..Len(pos) |-> sr.index[pos[k]]],
      values |-> [k \in 1..Len(pos) |-> sr.values[pos[k]]] ]

\* test_size = 0.2: the test part has ceil(0.2 * n) rows.
TestRows(n) == (n + 4) \div 5

\* The sequences of k distinct positions among 1..n.
Arrangements(n, k) ==
    { q \in [1..k -> 1..n] : \A i, j \in 1..k : i # j => q[i] # q[j] }

\* train_test_split(X, y, test_size=0.2, random_state=0, stratify=y): the
\* row positions that go to the test part, shuffled; the other rows are the
\* train part.  The same positions are applied to X and to y.  The library
\* refuses a split that leaves no training row.
SplitOutcomes(n) ==
    IF n - TestRows(n) < 1 THEN {}
    ELSE { [ test  |-> q,
             train |-> LET Rest(p) == p \notin SeqRange(q)
                       IN  SelectSeq([p \in 1..n |-> p], Rest) ] :
           q \in Arrangements(n, TestRows(n)) }

\* value.dtype of a column: 'object' when the column holds text.
dtype(df, c) ==
    IF \E k \in 1..Len(df.data) : df.data[k][c].t = "str" THEN "object" ELSE "int64"

\* for col, value in df.iteritems(): if value.dtype == 'object':
\*     categorical.append(col)
ObjectColumns(df) ==
    LET IsObject(c) == dtype(df, c) = "object"
    IN  SelectSeq(df.columns, IsObject)

\* A faulty difference that returns the sorted index with nothing removed.
DifferenceRemovesNothing(index, other) ==
    LET In(c) == c \in SeqRange(index)
    IN  SelectSeq(SortedColumns, In)

\* Index.difference(other): the labels of the index that are not in other,
\* sorted, each once.
difference(index, other) ==
    LET In(c) == c \in SeqRange(index) /\ c \notin SeqRange(other)
    IN  SelectSeq(SortedColumns, In)

\* numeric_transformer and categorical_transformer: the steps of the two
\* preprocessing pipelines.
numeric_transformer     == << "SimpleImputer(median)", "StandardScaler" >>
categorical_transformer == << "SimpleImputer(constant)", "OneHotEncoder" >>

\* A faulty ColumnTransformer with the two column lists exchanged.
ColumnTransformerSwapped(num, cat) ==
    << [name |-> "num", steps |-> numeric_transformer, columns |-> cat],
       [name |-> "cat", steps |-> categorical_transformer, columns |-> num] >>

\* ColumnTransformer(transformers=[('num', numeric_transformer, numerical),
\*                                 ('cat', categorical_transformer, categorical)])
ColumnTransformer(num, cat) ==
    << [name |-> "num", steps |-> numeric_transformer, columns |-> num],
       [name |-> "cat", steps |-> categorical_transformer, columns |-> cat] >>

\* instance_num = 1
instance_num == 1

\* x_test[:n]: the first n rows of the table (all of them if it has fewer).
head(df, n) ==
    LET m == IF Len(df.index) < n THEN Len(df.index) ELSE n
    IN  TakeRows(df, [k \in 1..m |-> k])

\* ------------------------------------------------------------------------
\* The explanation notebook, cell by cell
\* ------------------------------------------------------------------------
\* A notebook with the upload cell moved before the cell of run.complete().
XCellOrderUploadBeforeComplete ==
    << "load", "prepare", "split", "columns", "pipeline", "start_logging",
       "fit", "explainer", "explain_global", "upload", "complete",
       "explain_local", "predict", "done" >>

\* The code cells in the order of the notebook.
XCellOrder ==
    << "load", "prepare", "split", "columns", "pipeline", "start_logging",
       "fit", "complete", "explainer", "explain_global", "upload",
       "explain_local", "predict", "done" >>

XPosition(c) == CHOOSE k \in 1..Len(XCellOrder) : XCellOrder[k] = c

XAfter(c) == XCellOrder[XPosition(c) + 1]

XRunning(c) == xpc = c /\ xraised = "none"

\* The cell c has run to its end in this execution.
XDone(c) == XPosition(xpc) > XPosition(c)

\* The state the explanation notebook never touches.
othervars == << model, svc_out, nbvars >>

\* attritionData = ws.datasets['IBM-Employee-Attrition'].to_pandas_dataframe()
LoadData ==
    /\ XRunning("load")
    /\ attritionData' = dataset
    /\ xpc' = XAfter("load")
    /\ UNCHANGED << dataset, xraised, target, attritionXData, x_train, x_test,
                    y_train, y_test, categorical, numerical, transformations,
                    fitted, explain_run, local_explanation, printed, othervars >>

\* The cell of the four drops, `target = attritionData["Attrition"]` and
\* `attritionXData = attritionData.drop(['Attrition'], axis=1)`.
Prepare ==
    /\ XRunning("prepare")
    /\ LET dropped == DropEach(attritionData, NonInformative)
       IN  /\ attritionData' = dropped.df
           /\ IF dropped.ok /\ "Attrition" \in ColumnSet(dropped.df)
              THEN /\ target' = getitem(dropped.df, "Attrition")
                   /\ attritionXData' = Features(dropped.df)
                   /\ xpc' = XAfter("prepare")
                   /\ UNCHANGED xraised
              ELSE /\ xraised' = "prepare"
                   /\ UNCHANGED << target, attritionXData, xpc >>
    /\ UNCHANGED << dataset, x_train, x_test, y_train, y_test, categorical,
                    numerical, transformations, fitted, explain_run,
                    local_explanation, printed, othervars >>

\* x_train, x_test, y_train, y_test = train_test_split(attritionXData, target, ...)
Split ==
    /\ XRunning("split")
    /\ \/ /\ \E o \in SplitOutcomes(Len(attritionXData.index)) :
                /\ x_train' = TakeRows(attritionXData, o.train)
                /\ x_test'  = TakeRows(attritionXData, o.test)
                /\ y_train' = TakeValues(target, o.train)
                /\ y_test'  = TakeValues(target, o.test)
          /\ xpc' = XAfter("split")
          /\ UNCHANGED xraised
       \/ /\ xraised' = "split"
          /\ UNCHANGED << x_train, x_test, y_train, y_test, xpc >>
    /\ UNCHANGED << dataset, attritionData, target, attritionXData, categorical,
                    numerical, transformations, fitted, explain_run,
                    local_explanation, printed, othervars >>

\* The cell that collects `categorical` and `numerical`.
CollectColumns ==
    /\ XRunning("columns")
    /\ categorical' = ObjectColumns(attritionXData)
    /\ numerical' = difference(attritionXData.columns, ObjectColumns(attritionXData))
    /\ xpc' = XAfter("columns")
    /\ UNCHANGED << dataset, xraised, attritionData, target, attritionXData,
                    x_train, x_test, y_train, y_test, transformations, fitted,
                    explain_run, local_explanation, printed, othervars >>

\* transformations = ColumnTransformer(...); clf = Pipeline(...)
BuildPipeline ==
    /\ XRunning("pipeline")
    /\ transformations' = ColumnTransformer(numerical, categorical)
    /\ xpc' = XAfter("pipeline")
    /\ UNCHANGED << dataset, xraised, attritionData, target, attritionXData,
                    x_train, x_test, y_train, y_test, categorical, numerical,
                    fitted, explain_run, local_explanation, printed, othervars >>

\* The logging run of the experiment: its status, how often run.complete()
\* was called on it, how many explanations were uploaded to it, and the
\* status it had when the last one was uploaded.
ExperimentRun(status, completes, uploads, upload_at) ==
    [status |-> status, completes |-> completes, uploads |-> uploads,
     upload_at |-> upload_at]

\* run = experiment.start_logging(): a new run, active from the start.
StartLogging ==
    /\ XRunning("start_logging")
    /\ explain_run' = ExperimentRun("Running", 0, 0, "none")
    /\ xpc' = XAfter("start_logging")
    /\ UNCHANGED << dataset, xraised, attritionData, target, attritionXData,
                    x_train, x_test, y_train, y_test, categorical, numerical,
                    transformations, fitted, local_explanation, printed,
                    othervars >>

\* model = clf.fit(x_train, y_train): fits, or raises on the data.
Fit ==
    /\ XRunning("fit")
    /\ \/ /\ fitted' = TRUE
          /\ xpc' = XAfter("fit")
          /\ UNCHANGED xraised
       \/ /\ xraised' = "fit"
          /\ UNCHANGED << fitted, xpc >>
    /\ UNCHANGED << dataset, attritionData, target, attritionXData, x_train,
                    x_test, y_train, y_test, categorical, numerical,
                    transformations, explain_run, local_explanation, printed,
                    othervars >>

\* run.complete()
Complete ==
    /\ XRunning("complete")
    /\ explain_run' = [explain_run EXCEPT !.status = "Completed",
                                          !.completes = @ + 1]
    /\ xpc' = XAfter("complete")
    /\ UNCHANGED << dataset, xraised, attritionData, target, attritionXData,
                    x_train, x_test, y_train, y_test, categorical, numerical,
                    transformations, fitted, local_explanation, printed,
                    othervars >>

\* explainer = TabularExplainer(clf.steps[-1][1], initialization_examples=x_train, ...)
CreateExplainer ==
    /\ XRunning("explainer")
    /\ xpc' = XAfter("explainer")
    /\ UNCHANGED << dataset, xraised, attritionData, target, attritionXData,
                    x_train, x_test, y_train, y_test, categorical, numerical,
                    transformations, fitted, explain_run, local_explanation,
                    printed, othervars >>

\* global_explanation = explainer.explain_global(x_test)
ExplainGlobal ==
    /\ XRunning("explain_global")
    /\ xpc' = XAfter("explain_global")
    /\ UNCHANGED << dataset, xraised, attritionData, target, attritionXData,
                    x_train, x_test, y_train, y_test, categorical, numerical,
                    transformations, fitted, explain_run, local_explanation,
                    printed, othervars >>

\* client = ExplanationClient.from_run(run);
\* client.upload_model_explanation(global_explanation, ...): the explanation
\* is attached to the run, or the call to the workspace fails.
Upload ==
    /\ XRunning("upload")
    /\ \/ /\ explain_run' = [explain_run EXCEPT !.uploads = @ + 1,
                                                !.upload_at = explain_run.status]
          /\ xpc' = XAfter("upload")
          /\ UNCHANGED xraised
       \/ /\ xraised' = "upload"
          /\ UNCHANGED << explain_run, xpc >>
    /\ UNCHANGED << dataset, attritionData, target, attritionXData,
                    x_train, x_test, y_train, y_test, categorical, numerical,
                    transformations, fitted, local_explanation, printed,
                    othervars >>

\* local_explanation = explainer.explain_local(x_test[:instance_num]): the
\* explanation of the rows passed, kept here by their row labels.
ExplainLocal ==
    /\ XRunning("explain_local")
    /\ local_explanation' = [done |-> TRUE, index |-> head(x_test, instance_num).index]
    /\ xpc' = XAfter("explain_local")
    /\ UNCHANGED << dataset, xraised, attritionData, target, attritionXData,
                    x_train, x_test, y_train, y_test, categorical, numerical,
                    transformations, fitted, explain_run, printed, othervars >>

\* prediction_value = clf.predict(x_test)[instance_num]; the ranked local
\* values and names of class prediction_value are printed.  Indexing is
\* zero-based: [instance_num] is the row after the first instance_num rows,
\* and an IndexError if there is none.
PredictAndPrint ==
    /\ XRunning("predict")
    /\ IF Len(x_test.index) > instance_num
       THEN /\ \E predictions \in [1..Len(x_test.index) -> Labels] :
                 printed' = [ done             |-> TRUE,
                              explained        |-> local_explanation.index,
                              predicted        |-> x_test.index[instance_num + 1],
                              prediction_value |-> predictions[instance_num + 1] ]
            /\ xpc' = XAfter("predict")
            /\ UNCHANGED xraised
       ELSE /\ xraised' = "predict"
            /\ UNCHANGED << printed, xpc >>
    /\ UNCHANGED << dataset, attritionData, target, attritionXData, x_train,
                    x_test, y_train, y_test, categorical, numerical,
                    transformations, fitted, explain_run, local_explanation,
                    othervars >>

\* ------------------------------------------------------------------------
\* Specifications
\* ------------------------------------------------------------------------
vars == << model, svc_out, pc, raised, runs, vnet, targets, service, tokens,
           cpu_cluster, aks_target, aks_service, access_token, train_run,
           lookup, creates, sent, log, explainvars >>

\* score.py is loaded with `model` undefined.  The notebook starts at its
\* first cell; the workspace may already hold compute targets of the two
\* names (created in the portal, as the notebook offers, or by an earlier
\* session), in any provisioning state, with or without SSL, inside the
\* virtual network of the notebook or created without one.
ScoreInit ==
    /\ model = 0
    /\ svc_out = [called |-> FALSE]

NotebookInit ==
    /\ pc = CellOrder[1]
    /\ raised = "none"
    /\ runs = 1
    /\ cpu_cluster = Unbound
    /\ aks_target = Unbound
    /\ aks_service = Unbound
    /\ access_token = ""
    /\ train_run = [submitted |-> FALSE]
    /\ lookup = [c \in TargetNames |-> NoLookup]
    /\ creates = [c \in TargetNames |-> 0]
    /\ sent = << >>
    /\ log = << >>

CloudInit ==
    /\ vnet \in BOOLEAN
    /\ targets \in [TargetNames ->
                      {AbsentTarget} \cup
                      { Target(s, ssl, 0, net) : s \in ProvisioningStates,
                                                 ssl \in BOOLEAN,
                                                 net \in {compute_config, NoVNet} }]
    /\ service = AbsentService
    /\ tokens = {}

\* A workspace with nothing in it yet.
EmptyCloud ==
    /\ vnet = FALSE
    /\ targets = [c \in TargetNames |-> AbsentTarget]
    /\ service = AbsentService
    /\ tokens = {}

\* The explanation notebook at its first cell, nothing assigned yet.
ExplainCells ==
    /\ xpc = XCellOrder[1]
    /\ xraised = "none"
    /\ attritionData = EmptyTable
    /\ target = EmptySeries
    /\ attritionXData = EmptyTable
    /\ x_train = EmptyTable
    /\ x_test = EmptyTable
    /\ y_train = EmptySeries
    /\ y_test = EmptySeries
    /\ categorical = << >>
    /\ numerical = << >>
    /\ transformations = << >>
    /\ fitted = FALSE
    /\ explain_run = [status |-> "NotStarted", completes |-> 0, uploads |-> 0,
                      upload_at |-> "none"]
    /\ local_explanation = [done |-> FALSE]
    /\ printed = [done |-> FALSE]

\* The explanation notebook is not open: the dataset plays no part.
ExplainIdle ==
    /\ dataset = EmptyTable
    /\ ExplainCells

\* The workspace holds some dataset under the name IBM-Employee-Attrition.
ExplainInit ==
    /\ dataset \in Datasets
    /\ ExplainCells

Init == ScoreInit /\ NotebookInit /\ CloudInit /\ ExplainIdle

\* The scoring script on its host.
ScoreNext == init \/ run

\* score.py on its host: no notebook running, nothing in the workspace.
ScoreStart == ScoreInit /\ NotebookInit /\ EmptyCloud /\ ExplainIdle

ScoreSpec == ScoreStart /\ [][ScoreNext]_vars

\* The enterprise-readiness notebook and the cloud it talks to.
Next ==
    \/ CreateVNet
    \/ CpuClusterCell
    \/ CpuWait
    \/ AksClusterCell
    \/ AksWait
    \/ Provision
    \/ Submit
    \/ TrainProgress
    \/ Deploy
    \/ DeployWait
    \/ ServiceProgress
    \/ GetToken
    \/ Post
    \/ ServiceRun
    \/ RunAll

Spec == Init /\ [][Next]_vars

\* The explanation notebook, executed once from the top.
ExplainNext ==
    \/ LoadData
    \/ Prepare
    \/ Split
    \/ CollectColumns
    \/ BuildPipeline
    \/ StartLogging
    \/ Fit
    \/ Complete
    \/ CreateExplainer
    \/ ExplainGlobal
    \/ Upload
    \/ ExplainLocal
    \/ PredictAndPrint

ExplainStart == ScoreInit /\ NotebookInit /\ EmptyCloud /\ ExplainInit

ExplainSpec == ExplainStart /\ [][ExplainNext]_vars

\* ------------------------------------------------------------------------
\* Properties of score.py (checked under ScoreSpec)
\* ------------------------------------------------------------------------
\* The keys of a JSON object among `result` and `error`.
OutcomeKeys(doc) == DOMAIN doc.members \cap {"result", "error"}

\* C1: whatever the state of the scoring service (model loaded, model never
\* loaded, predict raising) and whatever table run is given, the string run
\* returns is a JSON object with exactly one of the keys `result` and
\* `error`: never both, never neither.
C1_ExactlyOneOutcomeKey ==
    svc_out.called =>
        /\ svc_out.result.kind = "return"
        /\ svc_out.result.text.t = "object"
        /\ Cardinality(OutcomeKeys(svc_out.result.text)) = 1

\* run was called on a loaded model whose predict raised, and answered.
C1_Witness ==
    /\ svc_out.called
    /\ svc_out.loaded
    /\ svc_out.predict.kind = "raise"
    /\ svc_out.result.kind = "return"

\* C2 as stated: when prediction succeeds for a one-row input, the value
\* under `result` is a single integer that is 0 or 1.
C2_ResultIsSingleInteger ==
    ( /\ svc_out.called
      /\ svc_out.predict.kind = "ok"
      /\ Len(svc_out.data.data) = 1 ) =>
        /\ svc_out.result.kind = "return"
        /\ "result" \in DOMAIN svc_out.result.text.members
        /\ svc_out.result.text.members["result"].t = "number"
        /\ svc_out.result.text.members["result"].n \in {0, 1}

\* C2 amended: when prediction succeeds, the value under `result` is a JSON
\* array with one element per input row, in row order, each the predicted
\* label of that row as an integer 0 or 1; for a one-row input it is a
\* one-element array such as [0], not a bare integer.
C2_ResultIsLabelArray ==
    ( svc_out.called /\ svc_out.predict.kind = "ok" ) =>
        /\ svc_out.result.kind = "return"
        /\ "result" \in DOMAIN svc_out.result.text.members
        /\ LET r == svc_out.result.text.members["result"]
           IN  /\ r.t = "array"
               /\ Len(r.items) = Len(svc_out.data.data)
               /\ \A k \in 1..Len(r.items) :
                     /\ r.items[k].t = "number"
                     /\ r.items[k].n = svc_out.predict.value.a[k]
                     /\ r.items[k].n \in {0, 1}

\* Prediction succeeded for a one-row input.
C2_Witness ==
    /\ svc_out.called
    /\ svc_out.predict.kind = "ok"
    /\ Len(svc_out.data.data) = 1
    /\ svc_out.result.kind = "return"

\* C3: run never raises: an exception raised while predicting, the NameError
\* of a call before init loaded the model included, is caught and returned
\* as {"error": str(e)}; the response carries the message alone, nothing
\* that classifies the error.
C3_ExceptionsBecomeErrorPayload ==
    svc_out.called =>
        /\ svc_out.result.kind = "return"
        /\ svc_out.predict.kind = "raise" =>
              svc_out.result =
                  Returned(JObject([k \in {"error"} |-> JString(svc_out.predict.exc.msg)]))

\* run was called before init loaded the model.
C3_Witness ==
    /\ svc_out.called
    /\ ~svc_out.loaded
    /\ svc_out.predict.kind = "raise"
    /\ svc_out.predict.exc.cls = "NameError"

\* C11: a prediction failure and a success leave run the same way: a normally
\* returned payload, answered with HTTP status 200; no exception leaves run
\* and no other status code is produced.  The key of the payload is the only
\* difference: `error` exactly when the prediction failed, `result` otherwise.
C11_FailureAnswersLikeSuccess ==
    svc_out.called =>
        /\ svc_out.result.kind = "return"
        /\ HttpStatus(svc_out.result) = 200
        /\ svc_out.predict.kind = "raise" <=> OutcomeKeys(svc_out.result.text) = {"error"}
        /\ svc_out.predict.kind = "ok" <=> OutcomeKeys(svc_out.result.text) = {"result"}

\* predict raised a ValueError on a loaded model and run answered with 200.
C11_Witness ==
    /\ svc_out.called
    /\ svc_out.loaded
    /\ svc_out.predict.kind = "raise"
    /\ svc_out.predict.exc.cls = "ValueError"
    /\ HttpStatus(svc_out.result) = 200

\* C22: a call of run leaves the global `model` as it was, whether run
\* answers with a result or with an error; `model` changes only in a call of
\* init.  What a later request can get therefore depends on the init calls
\* alone, not on the requests before it.
C22_RunLeavesModelUnchanged ==
    [][ /\ run => model' = model
        /\ model' # model => init ]_vars

\* A request failed on a loaded model (predict raised KeyError), and the
\* model of the first init is still the one in place.
C22_Witness ==
    /\ svc_out.called
    /\ svc_out.loaded
    /\ svc_out.predict.kind = "raise"
    /\ svc_out.predict.exc.cls = "KeyError"
    /\ model = 1

\* ------------------------------------------------------------------------
\* Properties of the enterprise-readiness notebook (checked under Spec)
\* ------------------------------------------------------------------------
\* The cell of a cluster and the notebook variable it binds.
ClusterCellOf(c) == IF c = TrainingCluster THEN "cpu_cell" ELSE "aks_cell"
ClusterVar(c)    == IF c = TrainingCluster THEN cpu_cluster ELSE aks_target

C5_CreateIffNotFound ==
    \A c \in TargetNames :
        /\ creates[c] = IF lookup[c].done /\ lookup[c].outcome = "ComputeTargetException"
                        THEN 1 ELSE 0
        /\ lookup[c].done =>
              /\ lookup[c].outcome = "ComputeTargetException" => ~lookup[c].existed
              /\ lookup[c].outcome = "ConnectionError" =>
                    /\ raised = ClusterCellOf(c)
                    /\ ~ClusterVar(c).bound
                    /\ targets[c].gen = lookup[c].gen
        /\ targets[c].gen <= runs

\* A creation failed: the cell raised after its one call of create, and the
\* target is still absent.
C5_Witness ==
    /\ raised = "cpu_cell"
    /\ lookup[TrainingCluster].done
    /\ lookup[TrainingCluster].outcome = "ComputeTargetException"
    /\ creates[TrainingCluster] = 1
    /\ ~Exists(targets[TrainingCluster])

\* C6 as stated: whenever a step that consumes a provisioned resource starts
\* (the training submission on cpu_cluster, Model.deploy on aks_target,
\* get_token on aks_service), that resource's provisioning or deployment has
\* finished in the succeeded state, on the create path and on the reuse path.
C6_ConsumersStartOnFinishedResources ==
    \A k \in 1..Len(log) :
        /\ log[k].step \in {"submit", "deploy"} => log[k].res = "Succeeded"
        /\ log[k].step = "get_token" => log[k].res = "Healthy"

\* The steps C7 lists, as the log names them, in the order C7 gives.
ListedSteps ==
    << "vnet", "training_cluster", "inference_cluster", "deployed", "get_token", "post" >>

IsListedStep(e) == \E k \in 1..Len(ListedSteps) : ListedSteps[k] = e.step

IsPrefix(a, b) == Len(a) <= Len(b) /\ \A k \in 1..Len(a) : a[k] = b[k]

\* The listed steps of this execution occur in the listed order, each once.
StepsInListedOrder ==
    LET done == SelectSeq(log, IsListedStep)
    IN  IsPrefix([k \in 1..Len(done) |-> done[k].step], ListedSteps)

\* C7 as stated: the steps occur in the listed order and never in another,
\* and each of them is performed by a call in the notebook's code.
C7_OrderedAndAllByCode ==
    /\ StepsInListedOrder
    /\ \A k \in 1..Len(log) : IsListedStep(log[k]) => log[k].by # "manual"

\* C7 amended: the steps occur in the listed order and never in another; the
\* virtual network is created by hand in the portal (the notebook has only a
\* markdown instruction for it), the two clusters, the deployment and the
\* token are obtained by SDK calls of the notebook, and the request is sent
\* with requests.post.
C7_OrderedVNetByHand ==
    /\ StepsInListedOrder
    /\ \A k \in 1..Len(log) :
          IsListedStep(log[k]) =>
              log[k].by = CASE log[k].step = "vnet" -> "manual"
                            [] log[k].step = "post" -> "requests"
                            [] OTHER                -> "sdk"

\* An execution went through all six steps.
C7_Witness ==
    /\ pc = "done"
    /\ LET done == SelectSeq(log, IsListedStep)
       IN  [k \in 1..Len(done) |-> done[k].step] = ListedSteps

\* C8 as stated: by the time a scoring request is sent, SSL has been enabled
\* on the inference cluster or on the web service, so the endpoint that
\* receives the request is an HTTPS endpoint.
C8_RequestsGoToHttps ==
    \A k \in 1..Len(sent) : sent[k].scheme = "https"

\* C9: the web service is deployed with token authentication enabled and key
\* authentication disabled, and every request sent over raw HTTP carries
\* `Authorization: Bearer <token>` with a token that get_token returned for
\* the same deployed service, before the request and after the deployment
\* had finished; none carries a key, none goes without a credential.
C9_BearerTokenOfTheService ==
    /\ service.state # "Absent" =>
          service.token_auth_enabled /\ ~service.auth_enabled
    /\ \A k \in 1..Len(sent) :
          sent[k].via = "requests.post" =>
              /\ sent[k].headers.ContentType = "application/json"
              /\ \E t \in tokens :
                    /\ sent[k].headers.Authorization = "Bearer " \o t.token
                    /\ t.service_gen = sent[k].service_gen
                    /\ t.service_gen = service.gen
                    /\ t.service_state = "Healthy"

\* The raw HTTP request was sent.
C9_Witness ==
    /\ Len(sent) >= 1
    /\ sent[1].via = "requests.post"
    /\ service.state = "Healthy"

\* The JSON scalar of a cell of the sample row.
SampleCell(c) == JsonCell(SampleRow[c])

\* C10 as stated: the body of a scoring request is a JSON object with the
\* single key `data` whose value is the sample table row-oriented: one
\* record per row, each mapping column name to value.
C10_BodyIsRowOriented ==
    \A k \in 1..Len(sent) :
        LET body == sent[k].body
        IN  /\ body.t = "object"
            /\ DOMAIN body.members = {"data"}
            /\ body.members["data"].t = "array"
            /\ Len(body.members["data"].items) = 1
            /\ body.members["data"].items[1].t = "object"
            /\ DOMAIN body.members["data"].items[1].members = ColumnSet(sample)
            /\ \A c \in ColumnSet(sample) :
                  body.members["data"].items[1].members[c] = SampleCell(c)

\* C10 amended: the body of a scoring request is a JSON object with the
\* single key `data` whose value is the sample table column-oriented: an
\* object that maps each column name to an object that maps the row label
\* ("0") to the value.
C10_BodyIsColumnOriented ==
    \A k \in 1..Len(sent) :
        LET body == sent[k].body
        IN  /\ body.t = "object"
            /\ DOMAIN body.members = {"data"}
            /\ body.members["data"].t = "object"
            /\ DOMAIN body.members["data"].members = ColumnSet(sample)
            /\ \A c \in ColumnSet(sample) :
                  LET col == body.members["data"].members[c]
                  IN  /\ col.t = "object"
                      /\ DOMAIN col.members = {"0"}
                      /\ col.members["0"] = SampleCell(c)

\* Both request cells have sent their request.
C10_Witness ==
    /\ Len(sent) = 2
    /\ sent[1].via = "requests.post"
    /\ sent[2].via = "aks_service.run"

\* C12: once the training cluster cell, respectively the inference cluster
\* cell, has bound its variable, the compute target behind cpu_cluster,
\* respectively aks_target, is inside the virtual network `AMLVNetDemo`, in
\* its subnet `default`, in the resource group of the workspace; and this
\* whether the cell created the target or reused an existing one.
C12_TargetsAreInsideTheVNet ==
    \A c \in TargetNames :
        ClusterVar(c).bound =>
            targets[c].net = Placement("ws.resource_group", "AMLVNetDemo", "default")

\* Whether a step is in the record of this execution.
HasStep(st) == \E k \in 1..Len(log) : log[k].step = st

\* C16 as stated: execution is synchronous and blocking, so when a step
\* has returned the remote operation it started has finished; in particular
\* the training run started by experiment.submit has finished by the time
\* Model.deploy starts.
C16_TrainingFinishedBeforeDeploy ==
    HasStep("deploy") => train_run.submitted /\ train_run.status # "Starting"

\* C16 amended: the cells run one after the other and the wait calls block:
\* a returned wait_for_completion means a cluster in state Succeeded, a
\* returned wait_for_deployment a Healthy service.  experiment.submit only
\* hands the run in: when Model.deploy starts the training run has been
\* submitted, and it may be starting, completed or failed.
C16_OnlyWaitCallsBlock ==
    /\ HasStep("deploy") =>
          /\ train_run.submitted
          /\ train_run.status \in {"Starting", "Completed", "Failed"}
    /\ HasStep("aks_wait") => targets[InferenceCluster].state = "Succeeded"
    /\ HasStep("deployed") => service.state = "Healthy"
    /\ (\E k \in 1..Len(log) : log[k] = Step("training_cluster", "sdk", "create")) =>
          targets[TrainingCluster].state = "Succeeded"

\* The deployment was started and awaited while the training run was still
\* starting.
C16_Witness ==
    /\ HasStep("deployed")
    /\ train_run.submitted
    /\ train_run.status = "Starting"

\* C17: a failure of the deployment (Model.deploy or wait_for_deployment) or
\* of get_token leaves the notebook where it happened, caught by no handler:
\* no later cell runs, so a scoring request is only ever sent to a healthy
\* service deployed in this execution and with a token obtained in it.
\* Model.deploy is called whenever the execution reaches its cell, whether
\* or not the service exists: nothing looks the service up first, and an
\* attempt that yields no service raises.
C17_DeployAndTokenFailuresPropagate ==
    /\ raised \in {"deploy", "get_token"} =>
          /\ sent = << >>
          /\ pc \in {"deploy", "deploy_wait", "get_token"}
          /\ ~HasStep("post") /\ ~HasStep("svc_run")
    /\ raised = "deploy" => access_token = "" /\ ~HasStep("get_token")
    /\ sent # << >> =>
          /\ service.state = "Healthy"
          /\ aks_service.bound /\ aks_service.gen = service.gen
          /\ \E t \in tokens : t.token = access_token /\ t.service_gen = service.gen
    /\ (raised = "deploy" \/ pc \in {"deploy_wait", "get_token", "post", "svc_run", "done"}) =>
          HasStep("deploy")
    /\ (HasStep("deploy") /\ ~aks_service.bound) => raised = "deploy"

\* The second execution called Model.deploy although the service of the
\* first one exists, and stopped there.
C17_Witness ==
    /\ runs = 2
    /\ service.state = "Healthy"
    /\ HasStep("deploy")
    /\ raised = "deploy"
    /\ ~aks_service.bound
    /\ sent = << >>

\* C18: the row of a scoring request has exactly the columns of
\* input_sample, and the value of each column has the type (string or
\* integer) it has in input_sample.
C18_SampleHasTheTypesOfInputSample ==
    \A k \in 1..Len(sent) :
        LET data == sent[k].body.members["data"]
        IN  /\ DOMAIN data.members = ColumnSet(input_sample)
            /\ \A c \in ColumnSet(input_sample) :
                  \A key \in DOMAIN data.members[c].members :
                      data.members[c].members[key].t = JsonCell(input_sample.data[1][c]).t

\* ------------------------------------------------------------------------
\* Properties of the explanation notebook (checked under ExplainSpec)
\* ------------------------------------------------------------------------
\* Whether a label occurs in a sequence, and how often.
Occurrences(q, c) == Cardinality({ k \in 1..Len(q) : q[k] = c })

\* C13: once the four drops have run, attritionData is the loaded table
\* without exactly the columns EmployeeCount, EmployeeNumber, Over18 and
\* StandardHours: every other column is still there with its values, the
\* columns that remain are in the order they had, and the rows are the same
\* rows in the same order.
C13_DropsExactlyTheFourColumns ==
    XDone("prepare") =>
        LET four == {"EmployeeCount", "EmployeeNumber", "Over18", "StandardHours"}
            Other(c) == c \notin four
        IN  /\ ColumnSet(attritionData) = ColumnSet(dataset) \ four
            /\ attritionData.columns = SelectSeq(dataset.columns, Other)
            /\ attritionData.index = dataset.index
            /\ Len(attritionData.data) = Len(dataset.data)
            /\ \A k \in 1..Len(dataset.data) :
                  \A c \in ColumnSet(dataset) \ four :
                      attritionData.data[k][c] = dataset.data[k][c]

\* The drops ran on a table of several different rows whose columns come in
\* another order than the published one.
C13_Witness ==
    /\ XDone("prepare")
    /\ dataset.columns[1] = "EmployeeNumber"
    /\ Len(dataset.data) >= 2
    /\ dataset.data[1] # dataset.data[2]
    /\ Len(attritionData.columns) = 5

\* C14: once `categorical` and `numerical` are collected, no column is in
\* both, neither lists a column twice, and together they list exactly the
\* columns of attritionXData; the label Attrition is in neither.
C14_CategoricalAndNumericalPartition ==
    XDone("columns") =>
        /\ SeqRange(categorical) \cap SeqRange(numerical) = {}
        /\ SeqRange(categorical) \cup SeqRange(numerical) = ColumnSet(attritionXData)
        /\ \A c \in ColumnSet(attritionXData) :
              Occurrences(categorical, c) + Occurrences(numerical, c) = 1
        /\ "Attrition" \notin SeqRange(categorical) \cup SeqRange(numerical)

\* Both lists are non-empty, for a table whose OverTime column holds text.
C14_Witness ==
    /\ XDone("columns")
    /\ "OverTime" \in SeqRange(categorical)
    /\ "Age" \in SeqRange(numerical)
    /\ Len(categorical) + Len(numerical) = 4

\* C15: the local explanation that is printed explains the prediction it is
\* printed with: the row whose predicted class selects the ranked local
\* values and names is the row that was passed to explain_local, and that
\* row is the first member of the test set.
C15_ExplainedRowIsPredictedRow ==
    printed.done =>
        /\ printed.explained = << printed.predicted >>
        /\ printed.predicted = x_test.index[1]

\* The transformers of the column transformer that list a column.
StagesOf(c) == { k \in 1..Len(transformations) : c \in SeqRange(transformations[k].columns) }

\* C19: a column of attritionXData is in `categorical` exactly when its
\* dtype is object, and in `numerical` otherwise.  The column transformer
\* sends each numerical column through the median imputer and the scaler
\* only, each categorical column through the constant imputer and the
\* one-hot encoder only: every feature column goes through exactly one of
\* the two, and none is left out.
C19_EachColumnGoesThroughItsTransformer ==
    /\ XDone("columns") =>
          \A c \in ColumnSet(attritionXData) :
              /\ c \in SeqRange(categorical) <=> dtype(attritionXData, c) = "object"
              /\ c \in SeqRange(numerical) <=> dtype(attritionXData, c) # "object"
    /\ XDone("pipeline") =>
          \A c \in ColumnSet(attritionXData) :
              /\ Cardinality(StagesOf(c)) = 1
              /\ \A k \in StagesOf(c) :
                    transformations[k].steps =
                        IF dtype(attritionXData, c) = "object"
                        THEN << "SimpleImputer(constant)", "OneHotEncoder" >>
                        ELSE << "SimpleImputer(median)", "StandardScaler" >>

\* The pipeline is built for a table whose OverTime column holds numbers
\* only, next to the text column BusinessTravel.
C19_Witness ==
    /\ XDone("pipeline")
    /\ dtype(attritionXData, "OverTime") = "int64"
    /\ dtype(attritionXData, "BusinessTravel") = "object"
    /\ Len(attritionXData.data) >= 2

\* C20: `target` is the label column of the table as it is after the four
\* drops and before the label is removed: should the label be missing, the
\* four columns are gone from attritionData when the cell fails.
\* attritionXData never has the column Attrition.  target and
\* attritionXData have the same rows in the same order (the rows of the
\* dataset, each with its own label), so the split pairs every row of
\* x_train and x_test with its label.
C20_TargetAlignedWithFeatures ==
    /\ "Attrition" \notin ColumnSet(attritionXData)
    /\ XDone("prepare") =>
          /\ target.index = attritionXData.index
          /\ target.index = dataset.index
          /\ \A k \in 1..Len(dataset.data) :
                /\ target.values[k] = dataset.data[k]["Attrition"]
                /\ \A c \in ColumnSet(attritionXData) :
                      attritionXData.data[k][c] = dataset.data[k][c]
    /\ ( /\ xraised = "prepare"
         /\ "Attrition" \notin ColumnSet(dataset)
         /\ SeqRange(NonInformative) \subseteq ColumnSet(dataset) ) =>
             ColumnSet(attritionData) = ColumnSet(dataset) \ SeqRange(NonInformative)
    /\ XDone("split") =>
          /\ x_train.index = y_train.index
          /\ x_test.index = y_test.index
          /\ \A k \in 1..Len(y_test.index) :
                \A j \in 1..Len(dataset.index) :
                    dataset.index[j] = y_test.index[k] =>
                        /\ y_test.values[k] = dataset.data[j]["Attrition"]
                        /\ x_test.data[k]["Age"] = dataset.data[j]["Age"]

\* A table of a stayer and a leaver was split, the leaver in the test part.
C20_Witness ==
    /\ XDone("split")
    /\ Len(y_test.values) >= 1
    /\ y_test.values[1] = PyInt(1)
    /\ \E k \in 1..Len(y_train.values) : y_train.values[k] = PyInt(0)

\* C21: the run of the experiment goes through its lifecycle in this order:
\* started by start_logging, then the model is fitted, then run.complete()
\* is called, exactly once, and only then the global explanation is
\* uploaded to the run.  So an upload always goes to a run that is already
\* marked complete, and nothing is attached to the run while it is active.
C21_UploadAfterComplete ==
    /\ fitted => explain_run.status # "NotStarted"
    /\ explain_run.completes <= 1
    /\ explain_run.status = "Completed" <=> explain_run.completes = 1
    /\ explain_run.completes = 1 => fitted
    /\ explain_run.status = "Running" => explain_run.uploads = 0
    /\ explain_run.uploads > 0 =>
          /\ explain_run.upload_at = "Completed"
          /\ explain_run.status = "Completed"
          /\ explain_run.uploads = 1
    /\ XDone("upload") => explain_run.uploads = 1

\* The explanation has been uploaded to the completed run of a fitted model.
C21_Witness ==
    /\ XDone("upload")
    /\ fitted
    /\ explain_run.completes = 1
    /\ explain_run.uploads = 1
    /\ explain_run.upload_at = "Completed"

====
